---- MODULE Spec2Model ----
(***************************************************************************)
(* Graceful shutdown and webhook ingestion of telebot.                     *)
(*                                                                         *)
(*   telebot/graceful_shutdown.py  GracefulShutdownCondition,              *)
(*                                 PreventShutdown, GracefulShutdownHandler*)
(*   telebot/webhook.py            run_webhook_server.handle_update        *)
(*                                                                         *)
(* One asyncio event loop runs the coordinator's run() task(s), the        *)
(* background jobs that use PreventShutdown, and the request handlers.     *)
(* A task is only interleaved with the others where it awaits something    *)
(* that suspends; every action below is one such atomic stretch of code.   *)
(***************************************************************************)
EXTENDS Naturals, Sequences, FiniteSets, TLC

\* ------------------------------------------------------------- bounds
NumGuards == 2      \* PreventShutdown instances that may exist at once
MaxScopes == 2      \* scopes open at once, over all tasks
MaxLoops == 2       \* calls of GracefulShutdownHandler.run()
NumRequests == 2    \* inbound HTTP requests
MaxHandlers == 2    \* entries of a bot's handler registry
MaxTicks == 1       \* steps of one background job that are told apart
MaxSessions == 3    \* client sessions created in one run

Guards == 1..NumGuards
\* One GracefulShutdownCondition built directly on a caller's own predicate,
\* a coroutine that awaits before it answers.
Customs == {0}
Conds == Guards \cup Customs
Tasks == {"job1", "job2"}
Loops == 1..MaxLoops
Requests == 1..NumRequests
Results == {"a", "b"}
Bots == {"bot1", "bot2"}
\* the list `bot_runners` that run_webhook_server is called with, in its order
BotOrder == <<"bot1", "bot2">>
\* what webhook_route() of a runner may return
Segments == {"route1", "route2"}
\* BotRunner.background_jobs of each runner
background_jobs == [b \in Bots |-> IF b = "bot1" THEN {"bg1", "bg2"} ELSE {"bg3"}]
BackgroundJobs == UNION {background_jobs[b] : b \in Bots}
\* the {route} segment of a request: missing, of no hosted bot, or of a hosted bot
Routes == {"none", "unmapped", "route1", "route2"}
Payloads == {"bad", "null", "update"}
Answers == {"ready", "notready", "raises"}
Events == {"e1", "e2"}
\* what each filter of a registry, in registration order, does with one event
FilterAnswers == {"match", "nomatch", "raises"}
Registries == UNION {[1..n -> FilterAnswers] : n \in 0..MaxHandlers}
RawPayloads == {"malformed", "event"}
\* what a handler may raise (the test's handler raises RuntimeError("AAA!!!"))
Exceptions ==
    {[type_name |-> "RuntimeError", body |-> "AAA!!!", traceback |-> "tb1"],
     [type_name |-> "KeyError", body |-> "user", traceback |-> "tb2"]}

VARIABLES
    _is_shutting_down,          \* GracefulShutdownHandler._is_shutting_down
    _is_running,                \* GracefulShutdownHandler._is_running
    signalled,                  \* history: _shutdown_signal_handler has run
    repeated,                   \* history: the handler has taken its "repeated signal" branch
    loopPc,                     \* per run() call: where that coroutine is
    loopRest,                   \* per run() call: conditions the pass has not visited
    loopBroken,                 \* per run() call: the set grew during the pass
    condition,                  \* per run() call: what its loop variable `condition`
                                \* refers to, {} while unbound
    instances,                  \* GracefulShutdownCondition.instances (live members)
    unowned,                    \* members that only a run() frame still refers to
    _is_preventing_shutdown,    \* PreventShutdown._is_preventing_shutdown
    predicate,                  \* what the custom condition's predicate does
    stack,                      \* per task: the scopes it has open, innermost last
    returned,                   \* outcome of the last decorated call that ended
    req,                        \* per request: progress and response
    disp,                       \* per event: its dispatch and the metrics delivered
    webhook_route,              \* per runner: what its webhook_route() returns
    bot_runners,                \* the runners in the caller's list `bot_runners`
    startup,                    \* where run_webhook_server is
    webhook_info,               \* per bot: the URL the Bot API held before startup
    remote,                     \* per bot: the URL the Bot API holds now
    api_calls,                  \* per bot: the Bot API methods called on it so far
    spawned,                    \* per background job: the tasks created for it
    ticks,                      \* per background job: the steps it has made
    overlap,                    \* history: a job made a step while a request was open
    late,                       \* history: jobs that made a step after their runner
                                \* had been taken off the list
    is_shutting_down_returned,  \* what the last call of is_shutting_down() returned,
                                \* and whether a signal had been handled by then
    session,                    \* SessionManager.session, {} while None
    opened,                     \* the client sessions created so far
    closed,                     \* the client sessions that are closed
    stale,                      \* the client sessions whose event loop has stopped
    got,                        \* what the last get_session() returned
    call                        \* the call of _request: its attempts and how it ended

coordVars == <<_is_shutting_down, _is_running, signalled, repeated>>
loopVars == <<loopPc, loopRest, loopBroken, condition>>
condVars == <<instances, unowned, _is_preventing_shutdown, predicate>>
taskVars == <<stack, returned>>
vars == <<_is_shutting_down, _is_running, signalled, repeated, loopPc, loopRest,
          loopBroken, condition, instances, unowned, _is_preventing_shutdown,
          predicate, stack, returned, req, disp, webhook_route, bot_runners,
          startup, webhook_info, remote, api_calls, spawned, ticks, overlap, late,
          is_shutting_down_returned, session, opened, closed, stale, got, call>>
callVars == <<is_shutting_down_returned, session, opened, closed, stale, got, call>>
apiVars == <<session, opened, closed, stale, got, call>>
appVars == <<webhook_route, bot_runners, startup, webhook_info, remote, api_calls,
             spawned, ticks, overlap, late>>

NoRequest == [st |-> "new", status |-> 0, phase |-> "before", sent |-> FALSE,
              route |-> "none", bot |-> "none", outcome |-> "none", listed |-> TRUE]

\* no call of _request yet
NoCall == [pc |-> "idle", attempts |-> <<>>, raised |-> "none", result |-> "none"]

\* f"{base_url}/{route}/": the URL setup_webhooks registers for a route
webhook_url(route) == <<"base_url", route>>

\* "/webhook/{route}/": the path of the endpoint the application serves
endpoint(route) == <<"webhook", route>>

\* the Bot API methods setup_webhooks calls on each bot, in order
setup_webhooks_calls == <<"delete_webhook", "set_webhook">>

NoDispatch == [pc |-> "new", payload |-> "none", answers |-> <<>>, handler |-> 0,
               tests |-> 0, handler_test_durations |-> <<>>, filter_errors |-> {},
               outcome |-> "none", raised |-> {}, sink |-> <<>>]

BaseInit ==
    /\ _is_shutting_down = FALSE
    /\ _is_running = FALSE
    /\ signalled = FALSE
    /\ repeated = FALSE
    /\ loopPc = [l \in Loops |-> "none"]
    /\ loopRest = [l \in Loops |-> {}]
    /\ loopBroken = [l \in Loops |-> FALSE]
    /\ condition = [l \in Loops |-> {}]
    /\ instances = {}
    /\ unowned = {}
    /\ _is_preventing_shutdown = [g \in Guards |-> FALSE]
    /\ predicate = "ready"
    /\ stack = [t \in Tasks |-> <<>>]
    /\ returned = "none"
    /\ req = [r \in Requests |-> NoRequest]
    /\ disp = [e \in Events |-> NoDispatch]
    /\ bot_runners = Bots
    /\ ticks = [j \in BackgroundJobs |-> 0]
    /\ overlap = FALSE
    /\ late = {}
    /\ is_shutting_down_returned = {}
    /\ session = {}
    /\ opened = 0
    /\ closed = {}
    /\ stale = {}
    /\ got = {}
    /\ call = NoCall

\* The server is up: two runners with a route each, their webhooks registered
\* and their background jobs started by the startup hooks.
Init ==
    /\ BaseInit
    /\ webhook_route = [b \in Bots |-> IF b = "bot1" THEN "route1" ELSE "route2"]
    /\ startup = "serving"
    /\ webhook_info = [b \in Bots |-> <<>>]
    /\ remote = [b \in Bots |-> webhook_url(webhook_route[b])]
    /\ api_calls = [b \in Bots |-> setup_webhooks_calls]
    /\ spawned = [j \in BackgroundJobs |-> 1]

\* run_webhook_server has just been called with these two runners: the
\* application is built, no startup hook has run yet
StartInit ==
    /\ BaseInit
    /\ webhook_route = [b \in Bots |-> IF b = "bot1" THEN "route1" ELSE "route2"]
    /\ startup = "setup_webhooks"
    /\ webhook_info = [b \in Bots |-> <<>>]
    /\ remote = webhook_info
    /\ api_calls = [b \in Bots |-> <<>>]
    /\ spawned = [j \in BackgroundJobs |-> 0]

\* run_webhook_server has just been called with two runners whose routes are
\* whatever their webhook_route() returns, for bots whose webhook is not set,
\* is set to some other address, or is set to the address this server uses
AppInit ==
    /\ BaseInit
    /\ webhook_route \in [Bots -> Segments]
    /\ startup = "setup_webhooks"
    /\ webhook_info \in [Bots -> {<<>>, <<"elsewhere">>} \cup
                                  {webhook_url(sg) : sg \in Segments}]
    /\ \A b \in Bots :
          Len(webhook_info[b]) = 2 => webhook_info[b] = webhook_url(webhook_route[b])
    /\ remote = webhook_info
    /\ api_calls = [b \in Bots |-> <<>>]
    /\ spawned = [j \in BackgroundJobs |-> 0]

\* The process is gone once a run() task has raised SystemExit.
Terminated == \E l \in Loops : loopPc[l] = "exited"

\* ------------------------------------------------- PreventShutdown

\* (a variant of __aenter__ that forgets to set the flag)
aenter_forgets(f, g) == f

\* PreventShutdown.__aenter__
aenter(f, g) == [f EXCEPT ![g] = TRUE]

\* (a variant of __aexit__ that leaves the flag as it is)
aexit_keeps_flag(f, g) == f

\* PreventShutdown.__aexit__
aexit(f, g) == [f EXCEPT ![g] = FALSE]

\* What __aexit__ returns: None, so an exception of the block is not swallowed.
aexit_suppresses == FALSE

\* allow_shutdown up to its yield; initial_state is saved by the caller
allow_shutdown_enter(f, g) == [f EXCEPT ![g] = FALSE]

\* (a variant of allow_shutdown that resets the flag to true on the way out)
allow_shutdown_exit_blind(f, g, initial_state) == [f EXCEPT ![g] = TRUE]

\* allow_shutdown after its yield
allow_shutdown_exit(f, g, initial_state) == [f EXCEPT ![g] = initial_state]

\* PreventShutdown.is_ready_to_shutdown
is_ready_to_shutdown(g) == ~_is_preventing_shutdown[g]

\* GracefulShutdownCondition.is_ready for a condition whose predicate answers
\* without suspending (every PreventShutdown)
is_ready(c) == is_ready_to_shutdown(c)

\* (a variant of decorated() that awaits the function and drops its result)
decorated_result_dropped(v) == "none"

\* decorated(): `return await function(*args, **kwargs)`
decorated_result(v) == v

Scope(kind, g, saved) == [kind |-> kind, inst |-> g, initial_state |-> saved]
Top(t) == stack[t][Len(stack[t])]
Pop(t) == [stack EXCEPT ![t] = SubSeq(stack[t], 1, Len(stack[t]) - 1)]
Push(t, s) == [stack EXCEPT ![t] = Append(stack[t], s)]
RECURSIVE SumLen(_)
SumLen(S) ==
    IF S = {} THEN 0
    ELSE LET t == CHOOSE x \in S : TRUE IN Len(stack[t]) + SumLen(S \ {t})
OpenScopes == SumLen(Tasks)
CanOpen(t, g) ==
    /\ ~Terminated
    /\ g \in instances \ unowned
    /\ OpenScopes < MaxScopes
Referenced(c) == \E t \in Tasks : \E i \in 1..Len(stack[t]) : stack[t][i].inst = c
\* A run() coroutine that is suspended keeps its frame, and in it the condition
\* its for loop visited last.
Held(c) == \E l \in Loops : c \in condition[l]

\* GracefulShutdownCondition.__new__ + PreventShutdown.__init__: a new guard
\* joins the condition set; a pass suspended over the set sees it grow.
NewPreventShutdown(g) ==
    /\ ~Terminated
    /\ g \notin instances
    /\ instances' = instances \cup {g}
    /\ _is_preventing_shutdown' = [_is_preventing_shutdown EXCEPT ![g] = FALSE]
    /\ loopBroken' = [l \in Loops |-> loopBroken[l] \/ loopPc[l] = "await"]
    /\ UNCHANGED <<coordVars, loopPc, loopRest, condition, unowned, predicate, taskVars, req, disp, appVars, callVars>>

\* GracefulShutdownCondition(predicate, description) with a caller's predicate
NewCondition(c, p) ==
    /\ ~Terminated
    /\ c \notin instances
    /\ instances' = instances \cup {c}
    /\ predicate' = p
    /\ loopBroken' = [l \in Loops |-> loopBroken[l] \/ loopPc[l] = "await"]
    /\ UNCHANGED <<coordVars, loopPc, loopRest, condition, unowned,
                    _is_preventing_shutdown, taskVars, req, disp, appVars, callVars>>

\* The caller's predicate changes its answer (its own state, not this module's).
SetPredicate(p) ==
    /\ ~Terminated
    /\ 0 \in instances
    /\ predicate # p
    /\ predicate' = p
    /\ UNCHANGED <<coordVars, loopVars, instances, unowned, _is_preventing_shutdown,
                    taskVars, req, disp, appVars, callVars>>

\* The conditions of S leave the WeakSet; what they held is gone with them.
Collect(S) ==
    /\ instances' = instances \ S
    /\ unowned' = unowned \ S
    /\ _is_preventing_shutdown' =
          [g \in Guards |-> IF g \in S THEN FALSE ELSE _is_preventing_shutdown[g]]
    /\ predicate' = IF S \cap Customs # {} THEN "ready" ELSE predicate

\* The owner of a condition drops its last reference to it (a scope that is open
\* holds its guard). The WeakSet forgets the condition when nothing refers to it
\* any more; while the frame of a run() still does, the condition stays a member.
Release(c) ==
    /\ ~Terminated
    /\ c \in instances \ unowned
    /\ ~Referenced(c)
    /\ IF Held(c)
          THEN /\ unowned' = unowned \cup {c}
               /\ UNCHANGED <<instances, _is_preventing_shutdown, predicate>>
          ELSE Collect({c})
    /\ UNCHANGED <<coordVars, loopVars, taskVars, req, disp, appVars, callVars>>

\* `async with guard:` entered
Enter(t, g) ==
    /\ CanOpen(t, g)
    /\ stack' = Push(t, Scope("guard", g, FALSE))
    /\ _is_preventing_shutdown' = aenter(_is_preventing_shutdown, g)
    /\ UNCHANGED <<coordVars, loopVars, instances, unowned, predicate, returned, req, disp, appVars, callVars>>

\* the block of `async with guard:` ends normally
Exit(t) ==
    /\ ~Terminated
    /\ stack[t] # <<>>
    /\ Top(t).kind = "guard"
    /\ stack' = Pop(t)
    /\ _is_preventing_shutdown' = aexit(_is_preventing_shutdown, Top(t).inst)
    /\ UNCHANGED <<coordVars, loopVars, instances, unowned, predicate, returned, req, disp, appVars, callVars>>

\* a function decorated with the guard is called: decorated() enters `async with self`
Call(t, g) ==
    /\ CanOpen(t, g)
    /\ stack' = Push(t, Scope("call", g, FALSE))
    /\ _is_preventing_shutdown' = aenter(_is_preventing_shutdown, g)
    /\ UNCHANGED <<coordVars, loopVars, instances, unowned, predicate, returned, req, disp, appVars, callVars>>

\* the decorated function returns v: __aexit__ runs, decorated() returns
Return(t, v) ==
    /\ ~Terminated
    /\ stack[t] # <<>>
    /\ Top(t).kind = "call"
    /\ stack' = Pop(t)
    /\ _is_preventing_shutdown' = aexit(_is_preventing_shutdown, Top(t).inst)
    /\ returned' = decorated_result(v)
    /\ UNCHANGED <<coordVars, loopVars, instances, unowned, predicate, req, disp, appVars, callVars>>

\* `async with guard.allow_shutdown():` entered
AllowEnter(t, g) ==
    /\ CanOpen(t, g)
    /\ stack' = Push(t, Scope("allow", g, _is_preventing_shutdown[g]))
    /\ _is_preventing_shutdown' = allow_shutdown_enter(_is_preventing_shutdown, g)
    /\ UNCHANGED <<coordVars, loopVars, instances, unowned, predicate, returned, req, disp, appVars, callVars>>

\* the block of `async with guard.allow_shutdown():` ends normally
AllowExit(t) ==
    /\ ~Terminated
    /\ stack[t] # <<>>
    /\ Top(t).kind = "allow"
    /\ stack' = Pop(t)
    /\ _is_preventing_shutdown' =
          allow_shutdown_exit(_is_preventing_shutdown, Top(t).inst, Top(t).initial_state)
    /\ UNCHANGED <<coordVars, loopVars, instances, unowned, predicate, returned, req, disp, appVars, callVars>>

\* An exception leaves the k innermost scopes of stk, innermost first, with f
\* the flags and r the outcome of the last decorated call so far. A guard's
\* __aexit__ runs and its return value decides whether the exception goes on;
\* the generator of allow_shutdown gets the exception thrown in at its yield,
\* has no try/finally, and so never reaches the line that restores the flag.
RECURSIVE unwind(_, _, _, _)
unwind(f, stk, k, r) ==
    IF k = 0 THEN [f |-> f, stk |-> stk, r |-> r]
    ELSE LET top == stk[Len(stk)]
             rest == SubSeq(stk, 1, Len(stk) - 1)
         IN  IF top.kind = "allow" THEN unwind(f, rest, k - 1, r)
             ELSE IF aexit_suppresses
                 THEN [f |-> aexit(f, top.inst), stk |-> rest,
                       r |-> IF top.kind = "call" THEN "none" ELSE r]
             ELSE unwind(aexit(f, top.inst), rest, k - 1,
                         IF top.kind = "call" THEN "raised" ELSE r)

\* The code inside the innermost open scope of t raises, and the exception is
\* caught after it has left k scopes (nothing awaits on that way).
Fail(t, k) ==
    /\ ~Terminated
    /\ k \in 1..Len(stack[t])
    /\ stack' = [stack EXCEPT ![t] = unwind(_is_preventing_shutdown, stack[t], k, returned).stk]
    /\ _is_preventing_shutdown' = unwind(_is_preventing_shutdown, stack[t], k, returned).f
    /\ returned' = unwind(_is_preventing_shutdown, stack[t], k, returned).r
    /\ UNCHANGED <<coordVars, loopVars, instances, unowned, predicate, req, disp, appVars, callVars>>

\* ------------------------------------------- GracefulShutdownHandler

\* GracefulShutdownHandler.__init__
init_is_shutting_down == FALSE
init_is_running == FALSE

\* GracefulShutdownHandler(): __new__ hands back the singleton and Python then
\* runs __init__ on the object it got, each time the class is called;
\* is_shutting_down() calls the class on every use.
Construct ==
    /\ ~Terminated
    /\ _is_shutting_down' = init_is_shutting_down
    /\ _is_running' = init_is_running
    /\ UNCHANGED <<signalled, repeated, loopVars, condVars, taskVars, req, disp, appVars, callVars>>

\* is_shutting_down(): `return GracefulShutdownHandler()._is_shutting_down`, the
\* flag read from the object the class call hands back, after __init__ has run
\* on it once more
is_shutting_down ==
    /\ ~Terminated
    /\ _is_shutting_down' = init_is_shutting_down
    /\ _is_running' = init_is_running
    /\ is_shutting_down_returned' =
          {[after_signal |-> signalled, value |-> _is_shutting_down']}
    /\ UNCHANGED <<signalled, repeated, loopVars, condVars, taskVars, req, disp, appVars,
                    apiVars>>

\* run() up to its first await: the once-only check, the flag, signal.signal
RunCall(l) ==
    /\ ~Terminated
    /\ loopPc[l] = "none"
    /\ \A k \in Loops : k < l => loopPc[k] # "none"
    /\ IF _is_running
          THEN /\ loopPc' = [loopPc EXCEPT ![l] = "refused"]
               /\ UNCHANGED _is_running
          ELSE /\ loopPc' = [loopPc EXCEPT ![l] = "sleep"]
               /\ _is_running' = TRUE
    /\ UNCHANGED <<_is_shutting_down, signalled, repeated, loopRest, loopBroken, condition,
                    condVars, taskVars, req, disp, appVars, callVars>>

\* signal.signal(...) has been reached by some run()
HandlerInstalled == \E l \in Loops : loopPc[l] \notin {"none", "refused"}

\* (a variant of the handler in which a second signal switches the state back)
shutdown_signal_handler_toggles(shutting_down) == ~shutting_down

\* GracefulShutdownHandler._shutdown_signal_handler
shutdown_signal_handler(shutting_down) == IF ~shutting_down THEN TRUE ELSE shutting_down

\* SIGINT or SIGTERM is delivered
Signal ==
    /\ ~Terminated
    /\ HandlerInstalled
    /\ _is_shutting_down' = shutdown_signal_handler(_is_shutting_down)
    /\ signalled' = TRUE
    /\ repeated' = (repeated \/ _is_shutting_down)
    /\ UNCHANGED <<_is_running, loopVars, condVars, taskVars, req, disp, appVars, callVars>>

\* The orders in which a pass may visit the members of a set.
Orders(S) ==
    {f \in [1..Cardinality(S) -> S] : \A i, j \in 1..Cardinality(S) : i # j => f[i] # f[j]}

\* A member of the WeakSet is yielded to the pass of run() l only while something
\* refers to it: its owner, another run(), or this run()'s loop variable cur.
Alive(c, cur, l) ==
    /\ c \in instances
    /\ \/ c \notin unowned
       \/ c \in cur
       \/ \E k \in Loops \ {l} : c \in condition[k]

\* (a variant of the loop in which a predicate that raises counts as not ready)
after_predicate_swallows(answer, broken, cur, next) ==
    IF answer \in {"raises", "notready"} THEN [pc |-> "sleep", rest |-> {}, last |-> cur]
    ELSE IF broken THEN [pc |-> "failed", rest |-> {}, last |-> cur]
    ELSE next

\* `if not await condition.is_ready(): break` for a predicate that was awaited,
\* cur being that condition and next the pass over the members not visited yet.
\* An exception of the predicate ends run(); after a ready answer the for loop
\* asks the set iterator for the next member, which raises RuntimeError when the
\* set has grown under it.
after_predicate(answer, broken, cur, next) ==
    IF answer = "raises" THEN [pc |-> "failed", rest |-> {}, last |-> cur]
    ELSE IF answer = "notready" THEN [pc |-> "sleep", rest |-> {}, last |-> cur]
    ELSE IF broken THEN [pc |-> "failed", rest |-> {}, last |-> cur]
    ELSE next

\* (a variant of the pass that gives up waiting and exits whatever is polled)
Walk_gives_up(ord, i, cur, l) == [pc |-> "exited", rest |-> {}, last |-> cur]

\* The for/else of run() l from position i of the visiting order, with cur in
\* the loop variable, up to the point where the task suspends or run() ends: a
\* member that has died is skipped, a predicate that awaits suspends the pass, a
\* not-ready condition breaks to the next sleep, and the end of the set raises
\* SystemExit.
RECURSIVE Walk(_, _, _, _)
Walk(ord, i, cur, l) ==
    IF i > Len(ord) THEN [pc |-> "exited", rest |-> {}, last |-> cur]
    ELSE IF ~Alive(ord[i], cur, l) THEN Walk(ord, i + 1, cur, l)
    ELSE IF ord[i] \in Customs
        THEN [pc |-> "await", rest |-> {ord[k] : k \in (i + 1)..Len(ord)}, last |-> {ord[i]}]
    ELSE IF ~is_ready(ord[i]) THEN [pc |-> "sleep", rest |-> {}, last |-> {ord[i]}]
    ELSE Walk(ord, i + 1, {ord[i]}, l)

\* run() l goes on as w says: its loop variable is rebound, a run() that has
\* ended has no frame, and a condition nothing refers to any more is collected.
Continue(l, w) ==
    LET frame == IF w.pc \in {"sleep", "await"} THEN w.last ELSE {}
        gone == {c \in unowned : \A k \in Loops : c \notin [condition EXCEPT ![l] = frame][k]}
    IN /\ loopPc' = [loopPc EXCEPT ![l] = w.pc]
       /\ loopRest' = [loopRest EXCEPT ![l] = w.rest]
       /\ loopBroken' = [loopBroken EXCEPT ![l] = FALSE]
       /\ condition' = [condition EXCEPT ![l] = frame]
       /\ Collect(gone)

\* asyncio.sleep(0.5) is over: `continue` unless shutting down, else a pass
Wake(l) ==
    /\ ~Terminated
    /\ loopPc[l] = "sleep"
    /\ IF ~_is_shutting_down
          THEN UNCHANGED <<loopVars, condVars>>
          ELSE \E ord \in Orders(instances) : Continue(l, Walk(ord, 1, condition[l], l))
    /\ UNCHANGED <<coordVars, taskVars, req, disp, appVars, callVars>>

\* The awaited predicate finishes, and the pass goes on or ends.
Resume(l) ==
    /\ ~Terminated
    /\ loopPc[l] = "await"
    /\ \E ord \in Orders(loopRest[l]) :
          Continue(l, after_predicate(predicate, loopBroken[l], condition[l],
                                      Walk(ord, 1, condition[l], l)))
    /\ UNCHANGED <<coordVars, taskVars, req, disp, appVars, callVars>>

\* ---------------------------------------- run_webhook_server.handle_update

\* `return web.Response(status=404)`
status_no_route == 404
\* `return web.Response(status=403)`
status_unmapped == 403
\* `finally: return web.Response()`
status_final == 200

\* history: what the coordinator was doing when a request came in
Phase ==
    IF _is_shutting_down THEN "shutting"
    ELSE IF signalled THEN "reset"
    ELSE "before"

\* (a variant of the routing table that falls back to a bot for unknown routes)
bot_runner_by_route_default(route) ==
    IF route = "route2" THEN "bot2" ELSE "bot1"

\* (a variant of the routing table caught half built: only the first runner
\* of the list is in it)
bot_runner_by_route_partial(route) ==
    IF webhook_route[BotOrder[1]] = route THEN BotOrder[1] ELSE "none"

\* bot_runner_by_route.get(route): the hosted bot of a route, or None
\* (the table is the dict {bw.webhook_route(): bw for bw in bot_runners}: of
\* two runners with the same route the later one is the one kept)
bot_runner_by_route(route) ==
    LET hits == {i \in 1..Len(BotOrder) : webhook_route[BotOrder[i]] = route}
    IN  IF hits = {} THEN "none"
        ELSE BotOrder[CHOOSE i \in hits : \A k \in hits : k <= i]

\* (a variant of the handler whose finally clause does not return: an exception
\* that is still pending there reaches the HTTP server, which answers 500)
finally_without_return(pending) == IF pending THEN 500 ELSE status_final

\* `finally: return web.Response()`: the return discards an exception that is
\* still pending, such as the one the except clause raises itself when it reads
\* `update` before any value was bound to it.
finally_clause(pending) == status_final

\* (a variant of the handler that starts the processing and does not await it)
dispatch_in_background(rq) ==
    [rq EXCEPT !.st = "answered", !.status = finally_clause(FALSE),
               !.sent = TRUE, !.outcome = "running"]

\* `await bot_runner.bot.process_new_updates([update])`
dispatch(rq) ==
    [rq EXCEPT !.st = "processing", !.sent = TRUE, !.outcome = "running"]

\* handle_update up to `await request.json()`
Arrive(r, route) ==
    /\ ~Terminated
    /\ startup = "serving"
    /\ req[r].st = "new"
    /\ \A k \in Requests : k < r => req[k].st # "new"
    /\ req' = [req EXCEPT ![r] =
          IF route = "none"
             THEN [@ EXCEPT !.st = "answered", !.status = status_no_route,
                            !.phase = Phase, !.route = route]
          ELSE IF bot_runner_by_route(route) = "none"
             THEN [@ EXCEPT !.st = "answered", !.status = status_unmapped,
                            !.phase = Phase, !.route = route]
          ELSE [@ EXCEPT !.st = "reading", !.phase = Phase, !.route = route,
                         !.bot = bot_runner_by_route(route),
                         !.listed = bot_runner_by_route(route) \in bot_runners]]
    /\ UNCHANGED <<coordVars, loopVars, condVars, taskVars, disp, appVars, callVars>>

\* The body has been read. A body that is not JSON or not an update raises before
\* `update` is bound, so the except clause raises in its turn; an update that
\* decodes to None is skipped; both end in the finally clause. A decoded update
\* goes to process_new_updates of the bot of the route.
Decode(r, payload) ==
    /\ ~Terminated
    /\ req[r].st = "reading"
    /\ req' = [req EXCEPT ![r] =
          IF payload = "update" THEN dispatch(@)
          ELSE IF payload = "null"
             THEN [@ EXCEPT !.st = "answered", !.status = finally_clause(FALSE),
                            !.outcome = "skipped"]
          ELSE [@ EXCEPT !.st = "answered", !.status = finally_clause(TRUE),
                         !.outcome = "undecoded"]]
    /\ UNCHANGED <<coordVars, loopVars, condVars, taskVars, disp, appVars, callVars>>

\* process_new_updates returns or raises: except logs, finally answers
Finish(r, ok) ==
    /\ ~Terminated
    /\ req[r].st = "processing"
    /\ req' = [req EXCEPT ![r] =
          [@ EXCEPT !.st = "answered", !.status = finally_clause(FALSE),
                    !.outcome = IF ok THEN "done" ELSE "raised"]]
    /\ UNCHANGED <<coordVars, loopVars, condVars, taskVars, disp, appVars, callVars>>

\* ------------------------------------------- run_webhook_server: startup

\* bot_runner_by_route.items(): the bots of the table, in the order of the dict
items ==
    SelectSeq(BotOrder, LAMBDA b : bot_runner_by_route(webhook_route[b]) = b)

\* the bot setup_webhooks is at: the first of the table it has not finished
current_item ==
    LET todo == SelectSeq(items, LAMBDA b : api_calls[b] # setup_webhooks_calls)
    IN  IF todo = <<>> THEN {} ELSE {todo[1]}

\* setup_webhooks: `await br.bot.delete_webhook()`
DeleteWebhook(b) ==
    /\ startup = "setup_webhooks"
    /\ b \in current_item
    /\ api_calls[b] = <<>>
    /\ api_calls' = [api_calls EXCEPT ![b] = Append(@, setup_webhooks_calls[1])]
    /\ remote' = [remote EXCEPT ![b] = <<>>]
    /\ UNCHANGED <<coordVars, loopVars, condVars, taskVars, req, disp, callVars, webhook_route,
                    bot_runners, startup, webhook_info, spawned, ticks, overlap, late>>

\* setup_webhooks: `await br.bot.set_webhook(url=f"{base_url}/{route}/")`; the
\* hook returns after the last bot of the table
SetWebhook(b) ==
    /\ startup = "setup_webhooks"
    /\ b \in current_item
    /\ api_calls[b] = <<setup_webhooks_calls[1]>>
    /\ api_calls' = [api_calls EXCEPT ![b] = Append(@, setup_webhooks_calls[2])]
    /\ remote' = [remote EXCEPT ![b] = webhook_url(webhook_route[b])]
    /\ startup' = IF b = items[Len(items)] THEN "run_background_tasks" ELSE startup
    /\ UNCHANGED <<coordVars, loopVars, condVars, taskVars, req, disp, callVars, webhook_route,
                    bot_runners, webhook_info, spawned, ticks, overlap, late>>

\* (a variant that returns after the jobs of the first runner of the list)
run_background_tasks_first_runner(created) ==
    [j \in BackgroundJobs |->
        IF j \in background_jobs[BotOrder[1]] THEN created[j] + 1 ELSE created[j]]

\* run_background_tasks: `loop.create_task(coro)` for every job of every runner
\* of the list
run_background_tasks(created) ==
    [j \in BackgroundJobs |->
        IF \E i \in 1..Len(BotOrder) : j \in background_jobs[BotOrder[i]]
           THEN created[j] + 1 ELSE created[j]]

\* the second startup hook; the server starts to serve when it has returned
RunBackgroundTasks ==
    /\ startup = "run_background_tasks"
    /\ spawned' = run_background_tasks(spawned)
    /\ startup' = "serving"
    /\ UNCHANGED <<coordVars, loopVars, condVars, taskVars, req, disp, callVars, webhook_route,
                    bot_runners, webhook_info, remote, api_calls, ticks, overlap, late>>

\* the runner a background job belongs to
owner(j) == CHOOSE b \in Bots : j \in background_jobs[b]

\* a task created for a background job runs up to its next await
JobStep(j) ==
    /\ spawned[j] > 0
    /\ ticks[j] < MaxTicks
    /\ ticks' = [ticks EXCEPT ![j] = @ + 1]
    /\ overlap' = (overlap \/ \E r \in Requests : req[r].st \in {"reading", "processing"})
    /\ late' = IF owner(j) \in bot_runners THEN late ELSE late \cup {j}
    /\ UNCHANGED <<coordVars, loopVars, condVars, taskVars, req, disp, callVars, webhook_route,
                    bot_runners, startup, webhook_info, remote, api_calls, spawned>>

\* The caller takes a runner off the list it started the server with: all it
\* can do to stop hosting a bot, run_webhook_server offers nothing else.
RemoveRunner(b) ==
    /\ startup = "serving"
    /\ b \in bot_runners
    /\ bot_runners' = bot_runners \ {b}
    /\ UNCHANGED <<coordVars, loopVars, condVars, taskVars, req, disp, callVars, webhook_route,
                    startup, webhook_info, remote, api_calls, spawned, ticks, overlap,
                    late>>

\* ------------------------------------------------------------ telebot.api

\* `MAX_RETRIES = 5`
MAX_RETRIES == 5

\* the client sessions that exist
Sessions == 1..opened

\* (a variant of get_session that only looks whether there is a session)
needs_init_when_none(s) == s = {}

\* get_session: `self.session is None or self.session.closed or not
\* self.session._loop.is_running()`
needs_init(s) == s = {} \/ s \subseteq closed \/ s \subseteq stale

\* SessionManager.get_session, as one of the tasks calls it: init_session when
\* needed, then `return self.session`
get_session ==
    /\ IF needs_init(session)
          THEN /\ opened < MaxSessions
               /\ opened' = opened + 1
               /\ session' = {opened + 1}
          ELSE UNCHANGED <<opened, session>>
    /\ got' = {[session |-> x, closed |-> x \in closed, stale |-> x \in stale,
                was |-> session, init |-> opened' # opened,
                was_open |-> (session # {} /\ session \cap (closed \cup stale) = {})] :
                   x \in session'}
    /\ UNCHANGED <<closed, stale>>

GetSession ==
    /\ get_session
    /\ UNCHANGED <<coordVars, loopVars, condVars, taskVars, req, disp, appVars,
                    is_shutting_down_returned, call>>

\* SessionManager.close_session: `if self.session is not None: await
\* self.session.close()`; the session reports closed from then on
CloseSession ==
    /\ closed' = closed \cup session
    /\ UNCHANGED <<coordVars, loopVars, condVars, taskVars, req, disp, appVars,
                    is_shutting_down_returned, session, opened, stale, got, call>>

\* SessionManager.set_session with a session the caller has kept
SetSession(x) ==
    /\ x \in Sessions
    /\ session # {x}
    /\ session' = {x}
    /\ UNCHANGED <<coordVars, loopVars, condVars, taskVars, req, disp, appVars,
                    is_shutting_down_returned, opened, closed, stale, got, call>>

\* The event loop the sessions were created on stops (the program goes on
\* with another one).
LoopStops ==
    /\ stale # Sessions
    /\ stale' = Sessions
    /\ UNCHANGED <<coordVars, loopVars, condVars, taskVars, req, disp, appVars,
                    is_shutting_down_returned, session, opened, closed, got, call>>

\* what the Bot API server may answer: the HTTP status and the body
HttpStatuses == {200, 502}
Bodies == {"invalid_json", "not_dict", "ok_false", "ok_true", "ok_true_no_result"}
\* what `session.request` or the reading of the body may raise
TransportErrors == {"ClientError", "TimeoutError"}
\* the subclasses of ApiException
ApiExceptions == {"ApiInvalidJSONException", "ApiHTTPException"}
\* what one attempt meets: an exception of the transport, or a response
Deliveries ==
    {[status |-> 0, body |-> "none", error |-> e] : e \in TransportErrors}
    \cup {[status |-> st, body |-> b, error |-> "none"] :
             st \in HttpStatuses, b \in Bodies}

\* _check_response: the exception it raises, "none" when it returns the JSON.
\* The body is parsed, then `isinstance(result_json, dict)` and
\* `result_json.get("ok") is not True` are tested; response.status is not read.
_check_response(response) ==
    IF response.body = "invalid_json" THEN "ApiInvalidJSONException"
    ELSE IF response.body \in {"not_dict", "ok_false"} THEN "ApiHTTPException"
    ELSE "none"

\* what the body of the try statement of _request raises for a delivery, "none"
\* when it reaches `return json_result["result"]` and the key is there
attempt_raises(d) ==
    IF d.error # "none" THEN d.error
    ELSE IF _check_response(d) # "none" THEN _check_response(d)
    ELSE IF d.body = "ok_true_no_result" THEN "KeyError"
    ELSE "none"

\* (a variant of _request without its `except ApiException: raise` clause)
is_retried_always(exc) == TRUE

\* `except ApiException: raise` before `except Exception as e: last_exception = e`
is_retried(exc) == exc \notin ApiExceptions

\* (a variant of the loop that makes one attempt more)
more_attempts_inclusive(n) == n <= MAX_RETRIES

\* `for attempt in range(MAX_RETRIES)`: is there an attempt after n attempts
more_attempts(n) == n < MAX_RETRIES

\* _request up to its first attempt: `session = await session_manager.get_session()`
RequestCall ==
    /\ call.pc # "attempting"
    /\ get_session
    /\ call' = [NoCall EXCEPT !.pc = "attempting"]
    /\ UNCHANGED <<coordVars, loopVars, condVars, taskVars, req, disp, appVars,
                    is_shutting_down_returned>>

\* one turn of the loop of _request, with what it meets: the result is
\* returned, an ApiException is raised at once, any other exception is kept in
\* last_exception and the loop goes on, and after the last turn the for/else
\* raises last_exception
Attempt(d) ==
    /\ call.pc = "attempting"
    /\ LET exc == attempt_raises(d)
           attempts == Append(call.attempts,
                              [status |-> d.status, body |-> d.body, raises |-> exc])
       IN  call' =
             IF exc = "none"
                THEN [pc |-> "returned", attempts |-> attempts, raised |-> "none",
                      result |-> "result"]
             ELSE IF ~is_retried(exc)
                THEN [pc |-> "raised", attempts |-> attempts, raised |-> exc,
                      result |-> "none"]
             ELSE IF more_attempts(Len(attempts))
                THEN [call EXCEPT !.attempts = attempts]
             ELSE [pc |-> "raised", attempts |-> attempts,
                   raised |-> attempts[Len(attempts)].raises, result |-> "none"]
    /\ UNCHANGED <<coordVars, loopVars, condVars, taskVars, req, disp, appVars,
                    is_shutting_down_returned, session, opened, closed, stale, got>>

\* ------------------------------------------------------- EventDispatcher
\* (the dispatcher and the handler registry, as the specification and
\* tests/test_webhook.py describe them)

\* (a variant in which a later matching entry overrides an earlier one)
RECURSIVE resolve_last(_, _)
resolve_last(answers, i) ==
    IF i > Len(answers) THEN 0
    ELSE IF resolve_last(answers, i + 1) # 0 THEN resolve_last(answers, i + 1)
    ELSE IF answers[i] = "match" THEN i
    ELSE 0

\* resolve(event): the index of the first entry, from i on, whose filter matches
\* (a filter that raises does not match), 0 when there is none
RECURSIVE resolve(_, _)
resolve(answers, i) ==
    IF i > Len(answers) THEN 0
    ELSE IF answers[i] = "match" THEN i
    ELSE resolve(answers, i + 1)

\* (a variant that runs every filter of the registry, matched or not)
evaluated_all(answers, i) == [k \in 1..(Len(answers) + 1 - i) |-> k + i - 1]

\* the filters resolve runs from entry i on, in the order it runs them: one
\* after the other in registration order, none after the first that matches
RECURSIVE evaluated(_, _)
evaluated(answers, i) ==
    IF i > Len(answers) THEN <<>>
    ELSE IF answers[i] = "match" THEN <<i>>
    ELSE <<i>> \o evaluated(answers, i + 1)

\* (a variant that keeps no trace of a filter that raised)
filter_errors_dropped(answers, tested) == {}

\* the filters among those run that raised: each is caught, taken as
\* "no match", and noted for the breakdown of the metrics record
filter_errors(answers, tested) ==
    {tested[k] : k \in {n \in 1..Len(tested) : answers[tested[n]] = "raises"}}

\* (a variant that records the type of the exception and loses its message)
exception_info_type_only(exc) == [type_name |-> exc.type_name, body |-> ""]

\* the outcome field of a metrics record for an exception of the handler
exception_info(exc) == [type_name |-> exc.type_name, body |-> exc.body]

\* (a variant that delivers the record only when the handler did not fail)
emit_unless_failed(sink, record) ==
    IF record.exception_info # {} THEN sink ELSE Append(sink, record)

\* the record is handed to the metrics sink
emit(sink, record) == Append(sink, record)

\* the metrics record of a dispatch as it stands
MetricsRecord(d) ==
    [outcome |-> d.outcome, handler |-> d.handler, tests |-> d.tests,
     handler_test_durations |-> d.handler_test_durations,
     filter_errors |-> d.filter_errors,
     exception_info |-> {exception_info(exc) : exc \in d.raised}]

\* dispatch(bot, rawPayload) up to the call of the handler: decode, resolve
Dispatch(e, payload, answers) ==
    /\ disp[e].pc = "new"
    /\ disp' = [disp EXCEPT ![e] =
          IF payload = "malformed"
             THEN [@ EXCEPT !.pc = "finalizing", !.payload = payload,
                            !.outcome = "undecodable"]
          ELSE IF resolve(answers, 1) = 0
             THEN [@ EXCEPT !.pc = "finalizing", !.payload = payload,
                            !.answers = answers, !.tests = Len(answers),
                            !.handler_test_durations = evaluated(answers, 1),
                            !.filter_errors =
                                filter_errors(answers, evaluated(answers, 1)),
                            !.outcome = "unhandled"]
          ELSE [@ EXCEPT !.pc = "handling", !.payload = payload, !.answers = answers,
                         !.handler = resolve(answers, 1),
                         !.tests = resolve(answers, 1),
                         !.handler_test_durations = evaluated(answers, 1),
                         !.filter_errors =
                             filter_errors(answers, evaluated(answers, 1))]]
    /\ UNCHANGED <<coordVars, loopVars, condVars, taskVars, req, appVars, callVars>>

\* the handler returns
HandlerReturns(e) ==
    /\ disp[e].pc = "handling"
    /\ disp' = [disp EXCEPT ![e] = [@ EXCEPT !.pc = "finalizing", !.outcome = "success"]]
    /\ UNCHANGED <<coordVars, loopVars, condVars, taskVars, req, appVars, callVars>>

\* the handler raises: the exception is captured, not rethrown
HandlerRaises(e, exc) ==
    /\ disp[e].pc = "handling"
    /\ disp' = [disp EXCEPT ![e] =
          [@ EXCEPT !.pc = "finalizing", !.outcome = "exception", !.raised = {exc}]]
    /\ UNCHANGED <<coordVars, loopVars, condVars, taskVars, req, appVars, callVars>>

\* the end of dispatch: the metrics record goes to the sink, dispatch returns
Emit(e) ==
    /\ disp[e].pc = "finalizing"
    /\ disp' = [disp EXCEPT ![e] =
          [@ EXCEPT !.pc = "returned", !.sink = emit(@, MetricsRecord(disp[e]))]]
    /\ UNCHANGED <<coordVars, loopVars, condVars, taskVars, req, appVars, callVars>>

\* ------------------------------------------------------ specification

\* creation and release of guards, block guards, allow_shutdown, exceptions
ScopeStep ==
    \/ \E g \in Guards : NewPreventShutdown(g)
    \/ \E c \in Conds : Release(c)
    \/ \E t \in Tasks, g \in Guards : Enter(t, g)
    \/ \E t \in Tasks : Exit(t)
    \/ \E t \in Tasks, g \in Guards : AllowEnter(t, g)
    \/ \E t \in Tasks : AllowExit(t)
    \/ \E t \in Tasks, k \in 1..MaxScopes : Fail(t, k)

\* calls of a function decorated with a guard
DecoratorStep ==
    \/ \E t \in Tasks, g \in Guards : Call(t, g)
    \/ \E t \in Tasks, v \in Results : Return(t, v)

GuardStep == ScopeStep \/ DecoratorStep

CustomStep ==
    \/ \E c \in Customs, p \in Answers : NewCondition(c, p)
    \/ \E p \in Answers : SetPredicate(p)

CoordStep ==
    \/ Construct
    \/ \E l \in Loops : RunCall(l)
    \/ Signal
    \/ \E l \in Loops : Wake(l)
    \/ \E l \in Loops : Resume(l)

WebStep ==
    \/ \E r \in Requests, route \in Routes : Arrive(r, route)
    \/ \E r \in Requests, payload \in Payloads : Decode(r, payload)
    \/ \E r \in Requests, ok \in BOOLEAN : Finish(r, ok)

StartupStep ==
    \/ \E b \in Bots : DeleteWebhook(b)
    \/ \E b \in Bots : SetWebhook(b)
    \/ RunBackgroundTasks

SessionStep ==
    \/ GetSession
    \/ CloseSession
    \/ \E x \in 1..MaxSessions : SetSession(x)
    \/ LoopStops

ApiStep ==
    \/ RequestCall
    \/ \E d \in Deliveries : Attempt(d)

DispatchStep ==
    \/ \E e \in Events, payload \in RawPayloads, answers \in Registries :
          Dispatch(e, payload, answers)
    \/ \E e \in Events : HandlerReturns(e)
    \/ \E e \in Events, exc \in Exceptions : HandlerRaises(e, exc)
    \/ \E e \in Events : Emit(e)

Next ==
    \/ GuardStep \/ CustomStep \/ CoordStep \/ WebStep \/ DispatchStep
    \/ StartupStep
    \/ \E j \in BackgroundJobs : JobStep(j)
    \/ \E b \in Bots : RemoveRunner(b)
    \/ is_shutting_down
    \/ SessionStep
    \/ ApiStep

\* the whole program
Spec == Init /\ [][Next]_vars

\* PreventShutdown and the tasks that use it
GuardSpec == Init /\ [][GuardStep]_vars

\* guards entered as blocks and through decorated calls, no allow_shutdown
ReentryStep ==
    \/ \E g \in Guards : NewPreventShutdown(g)
    \/ \E c \in Conds : Release(c)
    \/ \E t \in Tasks, g \in Guards : Enter(t, g)
    \/ \E t \in Tasks : Exit(t)
    \/ \E t \in Tasks, k \in 1..MaxScopes : Fail(t, k)
    \/ DecoratorStep
ReentrySpec == Init /\ [][ReentryStep]_vars

\* the coordinator with every kind of shutdown condition, the guards used as
\* block guards
ShutdownNext == ScopeStep \/ CustomStep \/ CoordStep
ShutdownSpec == Init /\ [][ShutdownNext]_vars

\* the coordinator with every kind of shutdown condition, the guards entered
\* and left as blocks only
PollNext ==
    \/ \E g \in Guards : NewPreventShutdown(g)
    \/ \E c \in Conds : Release(c)
    \/ \E t \in Tasks, g \in Guards : Enter(t, g)
    \/ \E t \in Tasks : Exit(t)
    \/ CustomStep
    \/ CoordStep
PollSpec == Init /\ [][PollNext]_vars

\* the coordinator with a caller's own shutdown condition and no guard
CoordSpec == Init /\ [][CustomStep \/ CoordStep]_vars

\* the coordinator with a caller's own shutdown condition, and tasks that ask
\* is_shutting_down()
QueryNext == CustomStep \/ CoordStep \/ is_shutting_down
QuerySpec == Init /\ [][QueryNext]_vars

\* the session manager of telebot.api by itself
SessionSpec == Init /\ [][SessionStep]_vars

\* calls of _request, one after the other
ApiSpec == Init /\ [][ApiStep]_vars

\* a coordinator that is constructed once, with every kind of shutdown condition,
\* each kept by its owner for as long as the program runs
WatchNext ==
    \/ \E g \in Guards : NewPreventShutdown(g)
    \/ \E t \in Tasks, g \in Guards : Enter(t, g)
    \/ \E t \in Tasks : Exit(t)
    \/ CustomStep
    \/ \E l \in Loops : RunCall(l)
    \/ Signal
    \/ \E l \in Loops : Wake(l)
    \/ \E l \in Loops : Resume(l)
WatchSpec == Init /\ [][WatchNext]_vars

\* the webhook server by itself
RequestSpec == Init /\ [][WebStep]_vars

\* the event dispatcher by itself
DispatchSpec == Init /\ [][DispatchStep]_vars

\* the coordinator beside the webhook server
WebNext == CustomStep \/ CoordStep \/ WebStep
WebSpec == Init /\ [][WebNext]_vars

\* the startup of the server, for every route and every remote registration
\* its runners may come with, and the background jobs it starts
StartupNext ==
    \/ StartupStep
    \/ \E j \in BackgroundJobs : JobStep(j)
StartupSpec == AppInit /\ [][StartupNext]_vars

\* the startup of the server, its background jobs and its requests
JobsNext ==
    \/ StartupStep
    \/ \E j \in BackgroundJobs : JobStep(j)
    \/ WebStep
JobsSpec == StartInit /\ [][JobsNext]_vars

\* the server up, its background jobs and its requests, the caller dropping
\* runners from its list
ServeNext ==
    \/ WebStep
    \/ \E j \in BackgroundJobs : JobStep(j)
    \/ \E b \in Bots : RemoveRunner(b)
ServeSpec == Init /\ [][ServeNext]_vars

\* the server up and its requests, the caller dropping runners from its list
TableNext ==
    \/ WebStep
    \/ \E b \in Bots : RemoveRunner(b)
TableSpec == Init /\ [][TableNext]_vars

\* the coordinator with every kind of shutdown condition, the guards entered
\* and left as blocks only, its polling task
\* scheduled again and again: a pass that could run infinitely often does run
Fairness == \A l \in Loops : SF_vars(Wake(l)) /\ SF_vars(Resume(l))
LiveSpec == Init /\ [][PollNext]_vars /\ Fairness

\* ------------------------------------------------------------ claims

InFlight(r) == req[r].st \in {"reading", "processing"}
Blocking == {g \in Guards \cap instances : ~is_ready(g)}
AllReady ==
    /\ Blocking = {}
    /\ 0 \in instances => predicate = "ready"
LoopAlive == \E l \in Loops : loopPc[l] \in {"sleep", "await"}
OpenOn(g) == {t \in Tasks : \E i \in 1..Len(stack[t]) : stack[t][i].inst = g}
\* the scopes an exception that leaves k scopes of t goes through
Left(t, k) == {i \in 1..Len(stack[t]) : i > Len(stack[t]) - k}

\* C1: the process exits only after a shutdown signal, and never at a moment
\* when a live PreventShutdown guard is blocking.
C1_ExitsOnlyWhenNoGuardBlocks ==
    Terminated => signalled /\ Blocking = {}

\* C2: once a signal has been received and, from some point on, every live
\* condition is ready while the polling task lives, SystemExit is raised.
C2_EventuallyExits ==
    <>[](signalled /\ AllReady /\ LoopAlive) => <>Terminated

\* C3: a request admitted before the shutdown signal is not cut off by the
\* exit: when the process exits, no such request is still being handled.
C3_InFlightRequestCompletes ==
    Terminated => \A r \in Requests : req[r].phase = "before" => ~InFlight(r)

\* C4: a request to a mapped route that comes in while the coordinator is
\* shutting down is not admitted and is answered 500.
C4_RefusedWhileShuttingDown ==
    \A r \in Requests :
        (req[r].phase = "shutting" /\ req[r].status \notin {status_no_route, status_unmapped})
            => /\ req[r].st \in {"new", "answered"}
               /\ ~req[r].sent
               /\ req[r].st = "answered" => req[r].status = 500

\* C5: a request that comes in after the shutdown signal is not left without a
\* response: when the process exits none is still being handled, and the answer
\* to a mapped route is 200 or 500.
C5_LateRequestAnswered ==
    \A r \in Requests :
        req[r].phase # "before"
            => /\ Terminated => ~InFlight(r)
               /\ req[r].st = "answered" =>
                     req[r].status \in {200, 500, status_no_route, status_unmapped}

\* C6: entering a guard makes it report not-ready, leaving it, normally or by an
\* exception, makes it report ready, and a guard reports ready exactly when its
\* blocking flag is false.
C6_ReadyIffNotBlocking ==
    [][\A t \in Tasks, g \in Guards :
          /\ Enter(t, g) => ~is_ready(g)'
          /\ (Exit(t) /\ Top(t).inst = g) => is_ready(g)'
          /\ \A k \in 1..MaxScopes :
                (Fail(t, k) /\ \E i \in Left(t, k) : stack[t][i] = Scope("guard", g, FALSE))
                    => is_ready(g)'
          /\ is_ready(g)' = (_is_preventing_shutdown'[g] = FALSE)
      ]_vars
C6_Witness ==
    \E t \in Tasks :
        /\ stack[t] # <<>>
        /\ Top(t).kind = "guard"
        /\ OpenOn(Top(t).inst) = {t}
        /\ ~is_ready(Top(t).inst)

\* C7: entering allow_shutdown saves the flag and sets it to false, and leaving
\* the sub-scope normally sets the flag to the saved value, at any nesting depth
\* and inside or outside a guard.
C7_AllowShutdownRestores ==
    [][/\ \A t \in Tasks, g \in Guards :
             AllowEnter(t, g) =>
                 /\ _is_preventing_shutdown'[g] = FALSE
                 /\ stack'[t][Len(stack'[t])].initial_state = _is_preventing_shutdown[g]
       /\ \A t \in Tasks :
             AllowExit(t) =>
                 _is_preventing_shutdown'[Top(t).inst] = Top(t).initial_state
      ]_vars
C7_Witness ==
    \E t \in Tasks :
        /\ Len(stack[t]) = 2
        /\ stack[t][1].kind = "allow"
        /\ stack[t][2].kind = "allow"
        /\ stack[t][1].inst = stack[t][2].inst

\* C8 as stated: while any scope of a guard is open, the guard reports not-ready.
C8_ReentrantSafe ==
    \A g \in Guards : OpenOn(g) # {} => ~is_ready(g)

\* C8 as amended: the state of a guard is one flag, so the first scope of an
\* instance to be left makes the guard report ready although other scopes of
\* that instance are still open.
C8_FirstExitClears ==
    [][\A t \in Tasks, g \in Guards :
          /\ ((Exit(t) \/ \E v \in Results : Return(t, v)) /\ Top(t).inst = g /\ OpenOn(g)' # {})
                => is_ready(g)'
          /\ \A k \in 1..MaxScopes :
                (Fail(t, k) /\ (\E i \in Left(t, k) : stack[t][i].inst = g) /\ OpenOn(g)' # {})
                    => is_ready(g)'
      ]_vars
C8_Witness ==
    \E g \in Guards :
        /\ Cardinality(OpenOn(g)) = 1
        /\ \A t \in OpenOn(g) : Len(stack[t]) = 1
        /\ is_ready(g)

\* C9: a call of a decorated function does to the guard what a block guard does:
\* the call sets the flag of that guard alone, the return or the exception of the
\* function clears it, and the caller gets the function's result or exception.
C9_DecoratorIsBlockGuard ==
    [][\A t \in Tasks, g \in Guards :
          /\ Call(t, g) =>
                _is_preventing_shutdown' = [_is_preventing_shutdown EXCEPT ![g] = TRUE]
          /\ \A v \in Results :
                (Return(t, v) /\ Top(t).inst = g) =>
                    /\ _is_preventing_shutdown' = [_is_preventing_shutdown EXCEPT ![g] = FALSE]
                    /\ returned' = v
          /\ \A k \in 1..MaxScopes :
                (Fail(t, k) /\ \E i \in Left(t, k) : stack[t][i] = Scope("call", g, FALSE))
                    => /\ is_ready(g)'
                       /\ returned' = "raised"
                       /\ Len(stack'[t]) = Len(stack[t]) - k
      ]_vars
C9_Witness ==
    /\ returned \in Results
    /\ \A g \in Guards : OpenOn(g) = {} /\ is_ready(g)
    /\ instances # {}

\* C10: the coordinator only moves forward: it exits only after a signal, and
\* once it is shutting down it stays shutting down.
C10_OnlyForward ==
    [][/\ _is_shutting_down => _is_shutting_down'
       /\ Terminated' => signalled'
      ]_vars

\* C11: a signal handled while the coordinator is already shutting down changes
\* nothing: the state stays shutting down, no run() is started, stopped or made
\* to exit, and handling the signal once more gives the same state again.
C11_RepeatedSignalIgnored ==
    [][Signal =>
          /\ shutdown_signal_handler(_is_shutting_down') = _is_shutting_down'
          /\ _is_shutting_down =>
                /\ UNCHANGED <<_is_shutting_down, _is_running, signalled>>
                /\ UNCHANGED <<loopVars, condVars, taskVars, req, disp, appVars, callVars>>
                /\ ~Terminated'
      ]_vars
C11_Witness == repeated /\ _is_shutting_down /\ ~Terminated

\* C12: at most one call of run() ever gets past the once-only check, however
\* the coordinator object was obtained.
C12_SingleRunLoop ==
    Cardinality({l \in Loops : loopPc[l] \notin {"none", "refused"}}) <= 1

\* C13: a condition that its owner has released is not a member of the
\* condition set (and so is never polled again).
C13_ReleasedConditionForgotten ==
    unowned = {}

\* C14: when the predicate of a polled condition raises, run() ends with that
\* exception: it neither exits the process nor goes on polling.
C14_PredicateErrorPropagates ==
    [][\A l \in Loops :
          (Resume(l) /\ predicate = "raises") => loopPc'[l] = "failed"
      ]_vars
C14_Witness ==
    \E l \in Loops : loopPc[l] = "failed" /\ predicate = "raises" /\ _is_shutting_down

\* C15: a step of run() leaves every task's open scopes and every live guard's
\* flag as they are and does not end the shutting-down state; run() exits only
\* from a pass made after a signal in which no live condition is polled
\* not-ready, and a not-ready answer sends it back to sleep: nothing else, no
\* timeout in particular, ends the waiting.
C15_NoTimeoutNoCancel ==
    [][/\ <<loopPc, loopRest, condition>>' # <<loopPc, loopRest, condition>> =>
             /\ stack' = stack
             /\ \A g \in Guards \cap instances' :
                   _is_preventing_shutdown'[g] = _is_preventing_shutdown[g]
             /\ _is_shutting_down' = _is_shutting_down
       /\ \A l \in Loops :
             /\ (loopPc[l] = "sleep" /\ loopPc'[l] # "sleep") =>
                   /\ _is_shutting_down
                   /\ loopPc'[l] \in {"await", "exited"}
             /\ (loopPc[l] = "sleep" /\ loopPc'[l] = "exited") =>
                   \A g \in Guards \cap (instances \ unowned) : ~_is_preventing_shutdown[g]
             /\ (loopPc[l] = "await" /\ loopPc'[l] # "await" /\ predicate = "notready") =>
                   loopPc'[l] = "sleep"
             /\ (loopPc[l] = "await" /\ loopPc'[l] = "exited") =>
                   /\ predicate = "ready"
                   /\ \A g \in Guards \cap loopRest[l] \cap (instances \ unowned) :
                         ~_is_preventing_shutdown[g]
      ]_vars
C15_Witness ==
    \E l \in Loops, g \in Guards :
        /\ loopPc[l] = "sleep"
        /\ _is_shutting_down
        /\ condition[l] = {g}
        /\ _is_preventing_shutdown[g]
        /\ OpenOn(g) # {}

\* C16: a request to the route of a hosted bot is answered 200 whatever its
\* processing came to: a body that does not decode, an update that decodes to
\* nothing, a handler that raises.
C16_MappedRouteAlwaysOk ==
    \A r \in Requests :
        /\ (req[r].st = "answered" /\ req[r].bot # "none") => req[r].status = 200
        /\ req[r].outcome \in {"undecoded", "skipped", "raised"} =>
              req[r].st = "answered" /\ req[r].status = 200
C16_Witness ==
    \E r, q \in Requests :
        /\ r < q
        /\ req[r].outcome = "raised" /\ req[r].status = 200
        /\ req[q].outcome = "undecoded" /\ req[q].status = 200

\* C17: a request for a route no bot is hosted at is answered 403, a request
\* without a route is answered 404, and neither is handed to any bot.
C17_UnknownRouteRefused ==
    \A r \in Requests :
        req[r].st # "new" =>
            /\ req[r].route = "unmapped" =>
                  /\ req[r].st = "answered" /\ req[r].status = 403
                  /\ ~req[r].sent /\ req[r].bot = "none"
            /\ req[r].route = "none" =>
                  /\ req[r].st = "answered" /\ req[r].status = 404
                  /\ ~req[r].sent /\ req[r].bot = "none"
C17_Witness ==
    \E r, q \in Requests :
        /\ req[r].st = "answered" /\ req[r].route = "unmapped"
        /\ req[q].st = "answered" /\ req[q].route = "none"

\* C18: a request whose event went to a bot is answered only when the
\* processing of that event by the bot of its route has returned or raised;
\* other requests are answered meanwhile, in any order.
C18_ResponseAfterProcessing ==
    \A r \in Requests :
        /\ req[r].sent => req[r].bot # "none" /\ req[r].route \notin {"none", "unmapped"}
        /\ (req[r].st = "answered" /\ req[r].sent) => req[r].outcome \in {"done", "raised"}
        /\ req[r].st = "processing" => req[r].outcome = "running" /\ req[r].status = 0
C18_Witness ==
    \E r, q \in Requests :
        /\ r < q
        /\ req[r].st = "processing"
        /\ req[q].st = "answered" /\ req[q].outcome = "done"

C20_ExceptionInMetrics ==
    \A e \in Events :
        (disp[e].pc = "returned" /\ disp[e].handler # 0) =>
            /\ Len(disp[e].sink) = 1
            /\ disp[e].sink[1].exception_info =
                  {[type_name |-> exc.type_name, body |-> exc.body] : exc \in disp[e].raised}
            /\ disp[e].outcome = "success" <=> disp[e].raised = {}
            /\ disp[e].outcome = "success" => disp[e].sink[1].exception_info = {}
            /\ disp[e].sink[1].outcome = disp[e].outcome
C20_Witness ==
    \E e, f \in Events :
        /\ disp[e].pc = "returned"
        /\ disp[e].sink[1].exception_info = {[type_name |-> "RuntimeError", body |-> "AAA!!!"]}
        /\ disp[f].pc = "returned" /\ disp[f].outcome = "success"

\* C21: an event is handed to at most one handler, and that handler is the
\* first entry in registration order whose filter matches: no entry before it
\* matches, and no handler is chosen exactly when no filter matches.
C21_FirstMatchWins ==
    \A e \in Events :
        disp[e].pc \in {"handling", "finalizing", "returned"} =>
            /\ disp[e].handler \in 0..Len(disp[e].answers)
            /\ disp[e].handler = 0 <=>
                  \A i \in 1..Len(disp[e].answers) : disp[e].answers[i] # "match"
            /\ disp[e].handler # 0 =>
                  /\ disp[e].answers[disp[e].handler] = "match"
                  /\ \A i \in 1..(disp[e].handler - 1) : disp[e].answers[i] # "match"
            /\ disp[e].outcome \in {"success", "exception"} => disp[e].handler # 0
C21_Witness ==
    \E e \in Events :
        /\ disp[e].pc = "returned" /\ disp[e].outcome = "success"
        /\ Len(disp[e].answers) = MaxHandlers
        /\ \A i \in 1..MaxHandlers : disp[e].answers[i] = "match"
        /\ disp[e].handler = 1

\* C22: the filters are run one at a time in registration order and none is
\* run after the first match: the record lists the entries 1, 2, ... up to
\* the matched one, or the whole registry when nothing matches.
C22_FiltersInOrderUntilMatch ==
    \A e \in Events :
        (disp[e].pc = "returned" /\ disp[e].payload = "event") =>
            LET tested == disp[e].sink[1].handler_test_durations
            IN  /\ \A k \in 1..Len(tested) : tested[k] = k
                /\ Len(tested) = IF disp[e].handler # 0 THEN disp[e].handler
                                 ELSE Len(disp[e].answers)
                /\ \A k \in 1..(Len(tested) - 1) : disp[e].answers[tested[k]] # "match"
C22_Witness ==
    \E e, f \in Events :
        /\ disp[e].pc = "returned" /\ disp[e].handler = 1
        /\ Len(disp[e].answers) = MaxHandlers
        /\ disp[e].sink[1].handler_test_durations = <<1>>
        /\ disp[f].pc = "returned" /\ disp[f].outcome = "unhandled"
        /\ Len(disp[f].sink[1].handler_test_durations) = MaxHandlers

\* C23: a filter that raises counts as a filter that does not match: the
\* entries after it are still tried, the exception does not become the outcome
\* of the dispatch, and the record names each filter that raised.
C23_RaisingFilterIsNoMatch ==
    \A e \in Events :
        (disp[e].pc = "returned" /\ disp[e].payload = "event") =>
            /\ disp[e].sink[1].filter_errors =
                  {i \in 1..Len(disp[e].answers) :
                      /\ disp[e].answers[i] = "raises"
                      /\ \A k \in 1..(i - 1) : disp[e].answers[k] # "match"}
            /\ disp[e].handler # 0 => disp[e].answers[disp[e].handler] = "match"
            /\ (\E i \in 1..Len(disp[e].answers) :
                     /\ disp[e].answers[i] = "match"
                     /\ \A k \in 1..(i - 1) : disp[e].answers[k] = "raises")
                  => disp[e].handler # 0
            /\ disp[e].raised = {} => disp[e].sink[1].exception_info = {}
            /\ disp[e].handler = 0 => disp[e].outcome = "unhandled"
C23_Witness ==
    \E e, f \in Events :
        /\ disp[e].pc = "returned" /\ disp[e].outcome = "success"
        /\ disp[e].answers[1] = "raises" /\ disp[e].handler = 2
        /\ disp[e].sink[1].filter_errors = {1}
        /\ disp[f].pc = "returned" /\ disp[f].outcome = "unhandled"
        /\ Len(disp[f].answers) = MaxHandlers
        /\ \A i \in 1..MaxHandlers : disp[f].answers[i] = "raises"

\* the bots of the route table
InTable(b) == bot_runner_by_route(webhook_route[b]) = b
\* the calls of set_webhook made on a bot
SetWebhookCalls(b) ==
    {k \in 1..Len(api_calls[b]) : api_calls[b][k] = "set_webhook"}

\* C24: once startup is over, every bot of the table has its callback URL
\* registered with the Bot API; set_webhook was not called for a bot whose
\* registration already was that URL, and was called exactly once otherwise.
C24_WebhookRegisteredOnce ==
    startup = "serving" =>
        \A b \in Bots : InTable(b) =>
            /\ remote[b] = webhook_url(webhook_route[b])
            /\ IF webhook_info[b] = webhook_url(webhook_route[b])
                  THEN SetWebhookCalls(b) = {}
                  ELSE Cardinality(SetWebhookCalls(b)) = 1

\* C25: the URL registered for a bot is base_url followed by the path of the
\* endpoint that routes to that bot, "/webhook/" + route + "/".
C25_RegisteredUrlIsServed ==
    \A b \in Bots :
        SetWebhookCalls(b) # {} =>
            remote[b] = <<"base_url">> \o endpoint(webhook_route[b])

\* C26: no background job has a task before the startup hook has run; once
\* the server serves, every job of every runner has exactly one task, and
\* only a job that has a task makes steps.
C26_JobsSpawnedOnce ==
    /\ \A j \in BackgroundJobs :
          /\ spawned[j] = IF startup = "serving" THEN 1 ELSE 0
          /\ ticks[j] > 0 => spawned[j] = 1
    /\ overlap => startup = "serving"
    /\ \A r \in Requests : req[r].st # "new" => startup = "serving"
\* a job has made a step while a request was open, and a request has been
\* answered while another job had made no step yet
C26_Witness ==
    \E r, q \in Requests :
        /\ req[r].st = "answered" /\ req[r].outcome = "done"
        /\ req[q].st = "processing"
        /\ overlap
        /\ ticks["bg1"] = MaxTicks /\ ticks["bg3"] = 0
        /\ \A j \in BackgroundJobs : spawned[j] = 1

\* C27: a request that comes in after a runner was removed is not handed to
\* the bot of that runner, and no background job of a removed runner makes
\* a step.
C27_RemovedRunnerIsGone ==
    /\ \A r \in Requests : req[r].bot # "none" => req[r].listed
    /\ late = {}

\* C28: while the server serves, every runner of the list is the one its own
\* route leads to: no route of a runner leads to another runner.
C28_NoBotShadowed ==
    startup = "serving" => \A b \in bot_runners : InTable(b)

\* C29: a server given two runners with the same route does not get to serve.
C29_CollisionIsFatal ==
    (\E b, c \in Bots : b # c /\ webhook_route[b] = webhook_route[c]) =>
        startup # "serving"

C31_InsertionTolerated ==
    [][\A l \in Loops :
          (loopPc[l] = "await" /\ loopBroken[l] /\ predicate = "ready")
              => loopPc'[l] # "failed"]_vars

C34_ConstructKeepsState ==
    [][Construct => UNCHANGED <<_is_shutting_down, _is_running>>]_vars

\* the scopes of instance g that are open, of the given kinds
ScopesOn(g, kinds) ==
    {<<t, i>> \in Tasks \X (1..MaxScopes) :
        i <= Len(stack[t]) /\ stack[t][i].inst = g /\ stack[t][i].kind \in kinds}

\* C35: a guard none of whose scopes is open, neither a guard scope nor a
\* call of a decorated function nor an allow_shutdown sub-scope, reports ready.
C35_NoScopeNoBlocking ==
    \A g \in Guards \cap instances :
        ScopesOn(g, {"guard", "call", "allow"}) = {} => is_ready(g)

\* C36: when an exception leaves an allow_shutdown sub-scope, the flag of the
\* instance is back at the value it had when the sub-scope was entered.
C36_AllowShutdownRestoresOnError ==
    [][\A t \in Tasks :
          (stack[t] # <<>> /\ Top(t).kind = "allow" /\ stack'[t] = Pop(t)[t]
             /\ ~AllowExit(t))
              => _is_preventing_shutdown'[Top(t).inst] = Top(t).initial_state]_vars

\* C37: a guard that is not entered, no guard scope of it open and no
\* function decorated with it running, reports ready.
C37_IdleGuardReady ==
    \A g \in Guards \cap instances :
        ScopesOn(g, {"guard", "call"}) = {} => is_ready(g)

\* the attempts of the call that ended with an exception that is not an ApiException
NonApiError(i) == call.attempts[i].raises \notin (ApiExceptions \cup {"none"})

\* C32: an attempt whose response is invalid JSON or has no true 'ok' raises
\* an ApiException; an attempt that raises an ApiException is the last of the
\* call, and the call ends by raising that exception.
C32_ApiErrorRaisedAtOnce ==
    \A i \in 1..Len(call.attempts) :
        /\ call.attempts[i].body \in {"invalid_json", "not_dict", "ok_false"}
              => call.attempts[i].raises \in ApiExceptions
        /\ call.attempts[i].raises \in ApiExceptions =>
              /\ i = Len(call.attempts)
              /\ call.pc = "raised"
              /\ call.raised = call.attempts[i].raises
C32_Witness ==
    /\ call.pc = "raised" /\ call.raised = "ApiHTTPException"
    /\ Len(call.attempts) = 3
    /\ call.attempts[1].raises = "TimeoutError"

\* C38: a call makes at most MAX_RETRIES attempts; every attempt but the last
\* ended with an error that is not an ApiException; the call returns exactly
\* when an attempt succeeded, with the result of that attempt; and when all
\* MAX_RETRIES attempts ended with such errors the call raises the last.
C38_BoundedRetries ==
    LET n == Len(call.attempts)
    IN  /\ n <= MAX_RETRIES
        /\ \A i \in 1..(n - 1) : NonApiError(i)
        /\ call.pc = "attempting" => n < MAX_RETRIES /\ \A i \in 1..n : NonApiError(i)
        /\ call.pc = "returned" <=> (n > 0 /\ call.attempts[n].raises = "none")
        /\ call.pc = "returned" => call.result = "result" /\ call.raised = "none"
        /\ (n > 0 /\ NonApiError(n) /\ call.pc # "attempting") =>
              /\ n = MAX_RETRIES
              /\ call.pc = "raised"
              /\ call.raised = call.attempts[n].raises
C38_Witness ==
    /\ call.pc = "raised" /\ call.raised = "TimeoutError"
    /\ Len(call.attempts) = MAX_RETRIES
    /\ call.attempts[1].raises = "ClientError"
    /\ call.attempts[2].raises = "KeyError"

\* C39: _check_response returns the JSON of a response only when the status
\* is 200, the body is JSON and its 'ok' is true; it raises an ApiException for
\* every other response.
C39_CheckResponse ==
    \A i \in 1..Len(call.attempts) :
        call.attempts[i].status # 0 =>
            (_check_response(call.attempts[i]) = "none" <=>
                /\ call.attempts[i].status = 200
                /\ call.attempts[i].body \in {"ok_true", "ok_true_no_result"})

\* C40: the session get_session returns is not closed and belongs to a
\* running loop; it is the session there was when that one was open and
\* usable, and a new one otherwise; sessions get closed by close_session only.
C40_NeverClosedSession ==
    /\ closed \subseteq Sessions
    /\ \A x \in got :
          /\ ~x.closed /\ ~x.stale
          /\ x.init = ~x.was_open
          /\ ~x.init => x.was = {x.session}
          /\ x.init => x.session \notin x.was
C40_Witness ==
    \E x \in got :
        /\ x.init /\ x.was # {} /\ x.was \subseteq closed
        /\ session = {x.session} /\ session \cap closed = {}

====
